---- MODULE Spec2Model ----
(***************************************************************************)
(* State-machine model of TexasScheduler (the Telegram-notifier client in  *)
(* src/Dockerfile, lines 17-343): startup, the p-queue polling loop, the   *)
(* location prober, the hold -> book reservation workflow and the webhook  *)
(* notifier.  Every await of the source is a suspension point: a request   *)
(* is "outstanding" between the step that issues it and the step that      *)
(* handles its response, and steps of different callers interleave.        *)
(***************************************************************************)
EXTENDS Integers, Sequences, FiniteSets, TLC

\* ----------------------------------------------------------------- bounds
NumLocs == 2
MaxRounds == 1
MaxMsgId == 1
MaxDay == 2
MaxWin == 2
MaxSlots == 1

\* ------------------------------------------------------ program constants
DayMs == 86400000
ExitSuccess == 0
ExitDemo == 2
ExitExisting == 0
ExitWebhook == 5
ExitCancelFail == 0
ExitUnhandled == 1
NoMessageId == -1
InvalidMessageId == -2

\* ------------------------------------------------------------------ state
VARIABLES
    demoOnly, cancelIfExist, webhookEnable, daysAround,   \* this.config
    pc,                     \* where run()/getLocationDatesAll() is suspended
    count,                  \* the round counter of getLocationDatesAll
    settled,                \* locations whose task of the awaited round resolved
    queued,                 \* p-queue: tasks added but not started
    inflight,               \* probes awaiting /api/AvailableLocationDates
    isPaused,               \* this.queue.isPaused
    isHolded, isBooked,
    existingBookingConfirmationNumber,
    webhookStatusMessageId,
    avaliableLocation,
    flows,                  \* suspended holdSlot/bookSlot invocations
    hooks,                  \* suspended sendWebhook calls (request outstanding)
    exited, exitCode, exitCause,
    requested,              \* history: API paths ever requested
    importantSent,          \* history: important notifications issued
    holdsOk,                \* history: hold responses that succeeded
    webhookCalled,          \* history: sendWebhook was called before
    message,                \* locations with lines in the round's summary
    bestSoFar,              \* getLocationDatesAll's bestSoFar: name and date
    found,                  \* history: locations whose probe of the awaited
                            \* round found a candidate
    pauses,                 \* history: times the queue went from running to paused
    cancelsSent,            \* history: /api/CancelBooking requests issued
    invoked,                \* history: method last invoked directly
    probeInput, avaliableDates   \* the prober's filter: input and result

cfgVars == <<demoOnly, cancelIfExist, webhookEnable, daysAround>>
runVars == <<pc, count, settled, queued, inflight, isPaused, isHolded, isBooked,
             existingBookingConfirmationNumber, webhookStatusMessageId,
             avaliableLocation, flows, hooks, exited, exitCode, exitCause,
             requested, importantSent, holdsOk, webhookCalled, message,
             bestSoFar, found, pauses, cancelsSent>>
pureVars == <<probeInput, avaliableDates>>
vars == <<cfgVars, runVars, invoked, pureVars>>

Locs == 1..NumLocs
MainCaller == <<-1, 0>>
\* avaliableLocation before the list is stored (null): no location has Id -1.
NullLocations == <<[Id |-> -1, Distance |-> 0, NextAvailableDate |-> 0]>>
\* bestSoFar as declared: no name, the date of the declaration.
NoBest == [Name |-> 0, NextAvailableDate |-> 0]

\* The state as one record, so that a handler is a function from state to state.
Cur ==
    [pc |-> pc, count |-> count, settled |-> settled, queued |-> queued,
     inflight |-> inflight, isPaused |-> isPaused, isHolded |-> isHolded,
     isBooked |-> isBooked,
     existingBookingConfirmationNumber |-> existingBookingConfirmationNumber,
     webhookStatusMessageId |-> webhookStatusMessageId,
     avaliableLocation |-> avaliableLocation, flows |-> flows, hooks |-> hooks,
     exited |-> exited, exitCode |-> exitCode, exitCause |-> exitCause,
     requested |-> requested, importantSent |-> importantSent,
     holdsOk |-> holdsOk, webhookCalled |-> webhookCalled,
     message |-> message, bestSoFar |-> bestSoFar, found |-> found,
     pauses |-> pauses, cancelsSent |-> cancelsSent]

Commit(s) ==
    /\ pc' = s.pc
    /\ count' = s.count
    /\ settled' = s.settled
    /\ queued' = s.queued
    /\ inflight' = s.inflight
    /\ isPaused' = s.isPaused
    /\ isHolded' = s.isHolded
    /\ isBooked' = s.isBooked
    /\ existingBookingConfirmationNumber' = s.existingBookingConfirmationNumber
    /\ webhookStatusMessageId' = s.webhookStatusMessageId
    /\ avaliableLocation' = s.avaliableLocation
    /\ flows' = s.flows
    /\ hooks' = s.hooks
    /\ exited' = s.exited
    /\ exitCode' = s.exitCode
    /\ exitCause' = s.exitCause
    /\ requested' = s.requested
    /\ importantSent' = s.importantSent
    /\ holdsOk' = s.holdsOk
    /\ webhookCalled' = s.webhookCalled
    /\ message' = s.message
    /\ bestSoFar' = s.bestSoFar
    /\ found' = s.found
    /\ pauses' = s.pauses
    /\ cancelsSent' = s.cancelsSent

\* ------------------------------------------------------------ process exit
ExitCodeOf(cause) ==
    CASE cause = "booked" -> ExitSuccess
      [] cause = "demo" -> ExitDemo
      [] cause = "existing" -> ExitExisting
      [] cause = "webhook" -> ExitWebhook
      [] cause = "cancelFail" -> ExitCancelFail
      [] OTHER -> ExitUnhandled

\* process.exit: the process and everything it had pending are gone.
processExit(s, cause) ==
    IF s.exited THEN s
    ELSE [s EXCEPT !.exited = TRUE, !.exitCode = ExitCodeOf(cause),
                   !.exitCause = cause, !.pc = "exit", !.settled = {},
                   !.queued = <<>>, !.inflight = {}, !.flows = {},
                   !.hooks = {}, !.message = <<>>, !.found = {}]

\* A rejected promise nobody handles: node 18 ends the process with code 1.
unhandledRejection(s) == processExit(s, "unhandled")

requestApi(s, path) == [s EXCEPT !.requested = @ \cup {path}]

\* ---------------------------------------------------------------- notifier
\* sendWebhook up to its first await: the request it issues.  nreq counts the
\* requests of one call (the retry after a rejected edit is the second), first
\* tells whether this is the first sendWebhook call of the run (history).
\* Mutant: an important call edits the status message when an id is stored.
webhookRequestEditImportant(s, caller, important, nreq, first) ==
    LET sendNewMessage == s.webhookStatusMessageId < 0
        requestBody ==
            [caller |-> caller, important |-> important,
             sendNew |-> sendNewMessage,
             message_id |-> IF ~sendNewMessage THEN s.webhookStatusMessageId
                            ELSE 0,
             disable_notification |-> sendNewMessage /\ ~important,
             nreq |-> nreq, first |-> first,
             stored |-> s.webhookStatusMessageId]
    IN  [s EXCEPT !.hooks = @ \cup {requestBody},
                  !.importantSent = IF important THEN @ + 1 ELSE @,
                  !.webhookCalled = TRUE]

webhookRequest(s, caller, important, nreq, first) ==
    LET sendNewMessage == important \/ s.webhookStatusMessageId < 0
        requestBody ==
            [caller |-> caller, important |-> important,
             sendNew |-> sendNewMessage,
             message_id |-> IF ~sendNewMessage THEN s.webhookStatusMessageId
                            ELSE 0,
             disable_notification |-> sendNewMessage /\ ~important,
             nreq |-> nreq, first |-> first,
             stored |-> s.webhookStatusMessageId]
    IN  [s EXCEPT !.hooks = @ \cup {requestBody},
                  !.importantSent = IF important THEN @ + 1 ELSE @,
                  !.webhookCalled = TRUE]

sendWebhook(s, caller, important) ==
    webhookRequest(s, caller, important, 1, ~s.webhookCalled)

checkExistBooking(s) == [requestApi(s, "/api/Booking") EXCEPT !.pc = "checkExist"]

\* The caller's continuation once its awaited sendWebhook call has returned.
webhookReturn(s, caller) ==
    IF caller = MainCaller
    THEN IF s.pc = "initWebhook" THEN checkExistBooking(s)
         ELSE [s EXCEPT !.pc = "sleep", !.message = <<>>, !.found = {}]
    ELSE processExit(s, "booked")

webhookOk(s, h, mid) ==
    LET s1 == [s EXCEPT !.hooks = @ \ {h},
                        !.webhookStatusMessageId =
                            IF ~h.important /\ h.sendNew THEN mid ELSE @]
    IN  webhookReturn(s1, h.caller)

\* Mutant: a rejected edit is retried without invalidating the stored id.
webhookNotOkKeepId(s, h) ==
    LET s1 == [s EXCEPT !.hooks = @ \ {h}]
    IN  IF ~h.sendNew
        THEN webhookRequest(s1, h.caller, h.important, h.nreq + 1, h.first)
        ELSE webhookReturn(s1, h.caller)

webhookNotOk(s, h) ==
    LET s1 == [s EXCEPT !.hooks = @ \ {h}]
    IN  IF ~h.sendNew
        THEN webhookRequest([s1 EXCEPT !.webhookStatusMessageId = InvalidMessageId],
                            h.caller, h.important, h.nreq + 1, h.first)
        ELSE webhookReturn(s1, h.caller)

\* undici.request rejects: only run()'s first call is inside a try/catch.
webhookThrow(s, h) ==
    LET s1 == [s EXCEPT !.hooks = @ \ {h}]
    IN  IF h.caller = MainCaller /\ s.pc = "initWebhook"
        THEN processExit(s1, "webhook")
        ELSE unhandledRejection(s1)

\* ------------------------------------------------------------------ prober
ms(days) == days * DayMs

\* Mutant: only the upper bound is tested (the single-bound form of the filter).
InWindowUpperOnly(date, now, around) ==
    LET msAway == date.AvailabilityDate - now
    IN  /\ msAway < ms(around[2])
        /\ Len(date.AvailableTimeSlots) > 0

InWindow(date, now, around) ==
    LET msAway == date.AvailabilityDate - now
    IN  /\ msAway < ms(around[2])
        /\ msAway >= ms(around[1])
        /\ Len(date.AvailableTimeSlots) > 0

FilterDates(dates, now, around) ==
    SelectSeq(dates, LAMBDA date : InWindow(date, now, around))

\* ------------------------------------------------------------------- queue
SeqRange(q) == {q[i] : i \in 1..Len(q)}

startTasks(s, tasks) ==
    IF tasks = {} THEN s
    ELSE [requestApi(s, "/api/AvailableLocationDates")
            EXCEPT !.inflight = @ \cup tasks]

queuePause(s) ==
    [s EXCEPT !.isPaused = TRUE,
              !.pauses = IF s.isPaused THEN @ ELSE @ + 1]

queueStart(s) ==
    IF ~s.isPaused THEN s
    ELSE startTasks([s EXCEPT !.isPaused = FALSE, !.queued = <<>>],
                    SeqRange(s.queued))

\* ---------------------------------------------------- reservation workflow
\* One invocation of holdSlot: the probe that called it, the slot it was given,
\* where it is suspended, and what it has done so far (history).
NewFlow(task, booking) ==
    [id |-> task, slot |-> booking, pc |-> "new", cancelled |-> FALSE,
     nhold |-> 0, nbook |-> 0, stale |-> FALSE, log |-> <<>>]

\* History: invocation f has sent a request or got an answer, about a slot at
\* a site.
logged(f, ev, slot, site) ==
    [f EXCEPT !.log = Append(@, [ev |-> ev, slot |-> slot, site |-> site])]

\* History: an attempt has failed; the invocations that have yet to issue
\* their hold request were started by discoveries made before that failure
\* (stale is kept up to the hold request).
markStale(s) ==
    [s EXCEPT !.flows = {IF g.pc = "cancel" THEN [g EXCEPT !.stale = TRUE]
                         ELSE g : g \in @}]

addFlow(s, f, at) == [s EXCEPT !.flows = @ \cup {[f EXCEPT !.pc = at]}]

cancelBooking(s, f) ==
    IF demoOnly THEN processExit(s, "demo")
    ELSE addFlow([requestApi(s, "/api/CancelBooking")
                     EXCEPT !.cancelsSent = @ + 1], f, "cancel")

holdRequest(s, f) ==
    addFlow(requestApi(s, "/api/HoldSlot"),
            logged([f EXCEPT !.nhold = @ + 1, !.stale = FALSE],
                   "hold", f.slot, f.id[2]), "hold")

\* Mutant: holdSlot without its dry-run guard.
holdSlotNoDemoGuard(s, booking, task) ==
    LET f == NewFlow(task, booking)
    IN  IF s.isHolded THEN s
        ELSE IF s.existingBookingConfirmationNumber # ""
             THEN cancelBooking(s, f)
        ELSE holdRequest(s, f)

\* Mutant: holdSlot resumes the queue when it returns at the set latch.
holdSlotResumeAtLatch(s, booking, task) ==
    LET f == NewFlow(task, booking)
    IN  IF demoOnly THEN processExit(s, "demo")
        ELSE IF s.isHolded THEN queueStart(s)
        ELSE IF s.existingBookingConfirmationNumber # ""
             THEN cancelBooking(s, f)
        ELSE holdRequest(s, f)

\* Mutant: holdSlot goes to the hold request without cancelling the staged
\* booking.
holdSlotNoCancel(s, booking, task) ==
    LET f == NewFlow(task, booking)
    IN  IF demoOnly THEN processExit(s, "demo")
        ELSE IF s.isHolded THEN s
        ELSE holdRequest(s, f)

holdSlot(s, booking, task) ==
    LET f == NewFlow(task, booking)
    IN  IF demoOnly THEN processExit(s, "demo")
        ELSE IF s.isHolded THEN s
        ELSE IF s.existingBookingConfirmationNumber # ""
             THEN cancelBooking(s, f)
        ELSE holdRequest(s, f)

\* Mutant: bookSlot sends the booking request without a fresh response id.
bookSlotNoEligibility(s, f) ==
    IF demoOnly THEN processExit(s, "demo")
    ELSE IF s.isBooked THEN s
    ELSE addFlow(requestApi(s, "/api/NewBooking"),
                 logged([f EXCEPT !.nbook = @ + 1], "book", f.slot, f.id[2]),
                 "book")

bookSlot(s, f) ==
    IF demoOnly THEN processExit(s, "demo")
    ELSE IF s.isBooked THEN s
    ELSE addFlow(requestApi(s, "/api/Eligibility"),
                 logged(f, "elig", f.slot, f.id[2]), "elig")

cancelResponse(s, f, statusCode) ==
    LET s1 == [s EXCEPT !.flows = @ \ {f}]
    IN  IF statusCode = 200 THEN holdRequest(s1, [f EXCEPT !.cancelled = TRUE])
        ELSE processExit(s1, "cancelFail")

\* Mutant: a successful hold goes on to bookSlot without setting the latch.
holdResponseNoLatch(s, f, SlotHeldSuccessfully) ==
    LET s1 == [s EXCEPT !.flows = @ \ {f}]
    IN  IF ~SlotHeldSuccessfully THEN queueStart(markStale(s1))
        ELSE bookSlot([s1 EXCEPT !.holdsOk = @ + 1], f)

holdResponse(s, f, SlotHeldSuccessfully) ==
    LET s1 == [s EXCEPT !.flows = @ \ {f}]
    IN  IF ~SlotHeldSuccessfully THEN queueStart(markStale(s1))
        ELSE bookSlot([s1 EXCEPT !.isHolded = TRUE, !.holdsOk = @ + 1],
                      logged(f, "holdOk", f.log[Len(f.log)].slot,
                             f.log[Len(f.log)].site))

eligibilityResponse(s, f) ==
    addFlow(requestApi([s EXCEPT !.flows = @ \ {f}], "/api/NewBooking"),
            logged([f EXCEPT !.nbook = @ + 1], "book", f.slot, f.id[2]),
            "book")

bookResponse(s, f, statusCode) ==
    LET s1 == [s EXCEPT !.flows = @ \ {f}]
    IN  IF statusCode = 200 THEN addFlow(s1, f, "json")
        ELSE queueStart(markStale(s1))

bookJson(s, f) ==
    LET s1 == [s EXCEPT !.flows = @ \ {f}, !.isBooked = TRUE]
    IN  IF webhookEnable THEN addFlow(sendWebhook(s1, f.id, TRUE), f, "notify")
        ELSE processExit(s1, "booked")

\* ------------------------------------------------------- the polling rounds
\* The continuation of `await this.queue.addAll(...)`: the summary is sent and
\* getLocationDatesAll suspends in sendWebhook.
\* With the results of addAll (.then) the summary gets each location's lines and
\* bestSoFar is updated; without them (.catch) neither happens.
\* Mutant: every location replaces bestSoFar, so the last one is named.
updateBestLast(best, locations, i) ==
    IF Len(locations) = 0 THEN best
    ELSE [Name |-> locations[Len(locations)].Id,
          NextAvailableDate |-> locations[Len(locations)].NextAvailableDate]

RECURSIVE updateBest(_, _, _)
updateBest(best, locations, i) ==
    IF i > Len(locations) THEN best
    ELSE LET location == locations[i]
             better == \/ best.Name = 0
                       \/ location.NextAvailableDate < best.NextAvailableDate
         IN  updateBest(IF better
                        THEN [Name |-> location.Id,
                              NextAvailableDate |-> location.NextAvailableDate]
                        ELSE best, locations, i + 1)

LocationIds(locations) == [i \in 1..Len(locations) |-> locations[i].Id]

roundDone(s, resolved) ==
    LET s1 == IF resolved
              THEN [s EXCEPT !.message = LocationIds(s.avaliableLocation),
                             !.bestSoFar = updateBest(@, s.avaliableLocation, 1)]
              ELSE s
    IN  [sendWebhook(s1, MainCaller, FALSE) EXCEPT !.pc = "roundWebhook"]

\* Mutant: addAll starts the tasks whether or not the queue is paused.
queueAddAllNoPause(s) ==
    LET locations == s.avaliableLocation
        tasks == [i \in 1..Len(locations) |-> <<s.count, locations[i].Id>>]
        s1 == [s EXCEPT !.pc = "addAll", !.settled = {}, !.message = <<>>,
                        !.found = {}]
        s2 == startTasks(s1, SeqRange(tasks))
    IN  IF Len(locations) = 0 THEN roundDone(s2, TRUE) ELSE s2

\* queue.addAll: every task is added; a running queue starts it at once, a
\* paused queue keeps it.  Promise.all of no task resolves at once.
queueAddAll(s) ==
    LET locations == s.avaliableLocation
        tasks == [i \in 1..Len(locations) |-> <<s.count, locations[i].Id>>]
        s1 == [s EXCEPT !.pc = "addAll", !.settled = {}, !.message = <<>>,
                        !.found = {}]
        s2 == IF s1.isPaused THEN [s1 EXCEPT !.queued = @ \o tasks]
              ELSE startTasks(s1, SeqRange(tasks))
    IN  IF Len(locations) = 0 THEN roundDone(s2, TRUE) ELSE s2

\* One task of the queue settles.  Promise.all of the awaited round rejects with
\* the first rejection and resolves with the last resolution.
taskSettled(s, task, resolved) ==
    LET s1 == [s EXCEPT !.inflight = @ \ {task}]
        awaited == s1.pc = "addAll" /\ task[1] = s1.count
        done == s1.settled \cup {task[2]}
    IN  IF s1.exited \/ ~awaited THEN s1
        ELSE IF ~resolved THEN roundDone(s1, FALSE)
        ELSE IF done = SeqRange(LocationIds(s1.avaliableLocation))
             THEN roundDone([s1 EXCEPT !.settled = done], TRUE)
        ELSE [s1 EXCEPT !.settled = done]

\* Mutant: the queue is paused only while the holding latch is not set.
getLocationDatesLatchGuard(s, task, response, now) ==
    LET dates == FilterDates(response, now, daysAround)
        s1 == IF Len(dates) # 0
              THEN LET booking == dates[1].AvailableTimeSlots[1]
                       s0 == IF ~s.isPaused /\ ~s.isHolded THEN queuePause(s)
                             ELSE s
                   IN  IF ~demoOnly THEN holdSlot(s0, booking, task) ELSE s0
              ELSE s
    IN  taskSettled(s1, task, TRUE)

\* Mutant: the candidate is taken from the qualifying window with the earliest
\* date instead of the first one.
getLocationDatesEarliest(s, task, response, now) ==
    LET dates == FilterDates(response, now, daysAround)
        s1 == IF Len(dates) # 0
              THEN LET e == CHOOSE i \in 1..Len(dates) :
                                \A j \in 1..Len(dates) :
                                    dates[i].AvailabilityDate <= dates[j].AvailabilityDate
                       booking == dates[e].AvailableTimeSlots[1]
                       awaited == s.pc = "addAll" /\ task[1] = s.count
                       sf == IF awaited THEN [s EXCEPT !.found = @ \cup {task[2]}]
                             ELSE s
                       s0 == IF ~sf.isPaused THEN queuePause(sf) ELSE sf
                   IN  IF ~demoOnly THEN holdSlot(s0, booking, task) ELSE s0
              ELSE s
    IN  taskSettled(s1, task, TRUE)

\* getLocationDates from the response of /api/AvailableLocationDates on.
getLocationDates(s, task, response, now) ==
    LET dates == FilterDates(response, now, daysAround)
        s1 == IF Len(dates) # 0
              THEN LET booking == dates[1].AvailableTimeSlots[1]
                       awaited == s.pc = "addAll" /\ task[1] = s.count
                       sf == IF awaited THEN [s EXCEPT !.found = @ \cup {task[2]}]
                             ELSE s
                       s0 == IF ~sf.isPaused THEN queuePause(sf) ELSE sf
                   IN  IF ~demoOnly THEN holdSlot(s0, booking, task) ELSE s0
              ELSE s
    IN  taskSettled(s1, task, TRUE)

\* ---------------------------------------------------------------- startup
requestAvaliableLocation(s) ==
    [requestApi(s, "/api/AvailableLocation/") EXCEPT !.pc = "reqLoc"]

\* Mutant: under the keep policy the location list is requested before the
\* process is ended.
existBookingResponseFetchFirst(s, exist) ==
    IF exist
    THEN IF cancelIfExist
         THEN requestAvaliableLocation(
                  [s EXCEPT !.existingBookingConfirmationNumber = "CONF"])
         ELSE processExit(requestAvaliableLocation(s), "existing")
    ELSE requestAvaliableLocation(s)

existBookingResponse(s, exist) ==
    IF exist
    THEN IF cancelIfExist
         THEN requestAvaliableLocation(
                  [s EXCEPT !.existingBookingConfirmationNumber = "CONF"])
         ELSE processExit(s, "existing")
    ELSE requestAvaliableLocation(s)

LocationFilter(response, miles) ==
    SelectSeq(response, LAMBDA location : location.Distance < miles)

locationsResponse(s, response) ==
    LET kept == LocationFilter(response, 5)
    IN  queueAddAll([s EXCEPT !.avaliableLocation = kept, !.count = 0])

\* ------------------------------------------------- what the servers answer
\* /api/AvailableLocation/: every location, each at a distance below or at the
\* configured limit of 5 miles; one of them has the soonest NextAvailableDate.
LocationResponses ==
    {[i \in Locs |-> [Id |-> i, Distance |-> d[i],
                      NextAvailableDate |-> IF i = soonest THEN ms(1) ELSE ms(2)]] :
        d \in [Locs -> {4, 5}], soonest \in Locs}

\* /api/AvailableLocationDates for location l: no window; one window on the
\* excluded upper bound; one window before the lower bound; an empty window,
\* then a late window with two slots, then an earlier window; or a window
\* outside, then an early window with two slots, then a later window.
ProbeResponses(l) ==
    { <<>>,
      << [AvailabilityDate |-> ms(3), AvailableTimeSlots |-> <<10 * l>>] >>,
      << [AvailabilityDate |-> 0, AvailableTimeSlots |-> <<10 * l + 4>>] >>,
      << [AvailabilityDate |-> ms(3), AvailableTimeSlots |-> <<10 * l>>],
         [AvailabilityDate |-> ms(1), AvailableTimeSlots |-> <<10 * l + 1, 10 * l + 2>>],
         [AvailabilityDate |-> ms(2), AvailableTimeSlots |-> <<10 * l + 3>>] >>,
      << [AvailabilityDate |-> ms(1), AvailableTimeSlots |-> <<>>],
         [AvailabilityDate |-> ms(2), AvailableTimeSlots |-> <<10 * l + 1, 10 * l + 2>>],
         [AvailabilityDate |-> ms(1), AvailableTimeSlots |-> <<10 * l + 3>>] >> }

\* ------------------------------------------------------------------- Init
\* The fields before run() is entered (the class's field initialisers).
Fields ==
    [pc |-> "new", count |-> 0, settled |-> {}, queued |-> <<>>,
     inflight |-> {}, isPaused |-> FALSE, isHolded |-> FALSE,
     isBooked |-> FALSE, existingBookingConfirmationNumber |-> "",
     webhookStatusMessageId |-> NoMessageId,
     avaliableLocation |-> NullLocations, flows |-> {}, hooks |-> {},
     exited |-> FALSE, exitCode |-> -1, exitCause |-> "none",
     requested |-> {}, importantSent |-> 0, holdsOk |-> 0,
     webhookCalled |-> FALSE, message |-> <<>>, bestSoFar |-> NoBest,
     found |-> {}, pauses |-> 0, cancelsSent |-> 0]

\* run() up to its first await, as the constructor leaves it.
run(s, enable) ==
    IF enable THEN [sendWebhook(s, MainCaller, FALSE) EXCEPT !.pc = "initWebhook"]
    ELSE checkExistBooking(s)

Start(s) ==
    /\ pc = s.pc
    /\ count = s.count
    /\ settled = s.settled
    /\ queued = s.queued
    /\ inflight = s.inflight
    /\ isPaused = s.isPaused
    /\ isHolded = s.isHolded
    /\ isBooked = s.isBooked
    /\ existingBookingConfirmationNumber = s.existingBookingConfirmationNumber
    /\ webhookStatusMessageId = s.webhookStatusMessageId
    /\ avaliableLocation = s.avaliableLocation
    /\ flows = s.flows
    /\ hooks = s.hooks
    /\ exited = s.exited
    /\ exitCode = s.exitCode
    /\ exitCause = s.exitCause
    /\ requested = s.requested
    /\ importantSent = s.importantSent
    /\ holdsOk = s.holdsOk
    /\ webhookCalled = s.webhookCalled
    /\ message = s.message
    /\ bestSoFar = s.bestSoFar
    /\ found = s.found
    /\ pauses = s.pauses
    /\ cancelsSent = s.cancelsSent

Init ==
    /\ demoOnly \in BOOLEAN
    /\ cancelIfExist \in BOOLEAN
    /\ webhookEnable \in BOOLEAN
    /\ daysAround = <<1, 3>>
    /\ Start(run(Fields, webhookEnable))
    /\ invoked = "none"
    /\ probeInput = [now |-> 0, dates |-> <<>>]
    /\ avaliableDates = <<>>

Step(s) == Commit(s) /\ UNCHANGED <<cfgVars, invoked, pureVars>>

\* ---------------------------------------------------------------- actions
WebhookOk ==
    /\ ~exited
    /\ \E h \in hooks, mid \in 1..MaxMsgId : Step(webhookOk(Cur, h, mid))

WebhookNotOk ==
    /\ ~exited
    /\ \E h \in hooks : Step(webhookNotOk(Cur, h))

WebhookThrow ==
    /\ ~exited
    /\ \E h \in hooks : Step(webhookThrow(Cur, h))

ExistBookingResponse ==
    /\ ~exited /\ pc = "checkExist"
    /\ \E exist \in BOOLEAN : Step(existBookingResponse(Cur, exist))

LocationsResponse ==
    /\ ~exited /\ pc = "reqLoc"
    /\ \E response \in LocationResponses : Step(locationsResponse(Cur, response))

\* requestApi rejects inside run(): nothing catches it.
StartupThrow ==
    /\ ~exited /\ pc \in {"checkExist", "reqLoc"}
    /\ Step(unhandledRejection(Cur))

\* The sleep between two rounds ends; the next round is added to the queue.
SleepDone ==
    /\ ~exited /\ pc = "sleep" /\ count < MaxRounds
    /\ Step(queueAddAll([Cur EXCEPT !.count = @ + 1]))

ProbeResponse ==
    /\ ~exited
    /\ \E task \in inflight : \E response \in ProbeResponses(task[2]) :
           Step(getLocationDates(Cur, task, response, 0))

\* requestApi rejects inside a probe: the queue's task rejects.
ProbeThrow ==
    /\ ~exited
    /\ \E task \in inflight : Step(taskSettled(Cur, task, FALSE))

CancelResponse ==
    /\ ~exited
    /\ \E f \in flows : \E statusCode \in {200, 500} :
           /\ f.pc = "cancel"
           /\ Step(cancelResponse(Cur, f, statusCode))

HoldResponse ==
    /\ ~exited
    /\ \E f \in flows : \E held \in BOOLEAN :
           /\ f.pc = "hold"
           /\ Step(holdResponse(Cur, f, held))

EligibilityResponse ==
    /\ ~exited
    /\ \E f \in flows : f.pc = "elig" /\ Step(eligibilityResponse(Cur, f))

BookResponse ==
    /\ ~exited
    /\ \E f \in flows : \E statusCode \in {200, 500} :
           /\ f.pc = "book"
           /\ Step(bookResponse(Cur, f, statusCode))

BookJson ==
    /\ ~exited
    /\ \E f \in flows : f.pc = "json" /\ Step(bookJson(Cur, f))

\* requestApi rejects inside holdSlot/bookSlot, whose promise nobody awaits.
FlowThrow ==
    /\ ~exited
    /\ \E f \in flows :
           /\ f.pc \in {"cancel", "hold", "elig", "book"}
           /\ Step(unhandledRejection([Cur EXCEPT !.flows = @ \ {f}]))

Next ==
    \/ WebhookOk
    \/ WebhookNotOk
    \/ WebhookThrow
    \/ ExistBookingResponse
    \/ LocationsResponse
    \/ StartupThrow
    \/ SleepDone
    \/ ProbeResponse
    \/ ProbeThrow
    \/ CancelResponse
    \/ HoldResponse
    \/ EligibilityResponse
    \/ BookResponse
    \/ BookJson
    \/ FlowThrow

Spec == Init /\ [][Next]_vars

\* A fair run: the event loop runs a callback that is ready, every request is
\* answered or fails, every timer fires.
FairSpec == Spec /\ WF_vars(Next)

\* --------------------------------------------- the methods invoked directly
\* cancelBooking, holdSlot and bookSlot called on a dry-run instance, as a unit
\* test of their first lines does (getLocationDates itself never calls holdSlot
\* when demoOnly is set).
InvokeCancelBooking ==
    /\ ~exited /\ demoOnly
    /\ \E l \in Locs :
           Commit(cancelBooking(Cur, NewFlow(<<count, l>>, 10 * l + 1)))
    /\ invoked' = "cancelBooking"
    /\ UNCHANGED <<cfgVars, pureVars>>

InvokeHoldSlot ==
    /\ ~exited /\ demoOnly
    /\ \E l \in Locs : Commit(holdSlot(Cur, 10 * l + 1, <<count, l>>))
    /\ invoked' = "holdSlot"
    /\ UNCHANGED <<cfgVars, pureVars>>

InvokeBookSlot ==
    /\ ~exited /\ demoOnly
    /\ \E l \in Locs :
           Commit(bookSlot(Cur, NewFlow(<<count, l>>, 10 * l + 1)))
    /\ invoked' = "bookSlot"
    /\ UNCHANGED <<cfgVars, pureVars>>

\* A dry run: no holdSlot/bookSlot invocation is ever suspended at a request
\* (flows stays empty, which C8_DryRun checks), so the steps that answer such a
\* request are never enabled and are left out of the next-state relation.
DemoInit == Init /\ demoOnly

DemoNext ==
    \/ WebhookOk
    \/ WebhookNotOk
    \/ WebhookThrow
    \/ ExistBookingResponse
    \/ LocationsResponse
    \/ StartupThrow
    \/ SleepDone
    \/ ProbeResponse
    \/ ProbeThrow
    \/ InvokeCancelBooking
    \/ InvokeHoldSlot
    \/ InvokeBookSlot

DemoSpec == DemoInit /\ [][DemoNext]_vars

\* ------------------------------------------------- the filter on its own
\* Availability dates one millisecond before and on each day boundary, seen
\* from a clock at day 0 or day 1.
PureDates ==
    {ms(d) + e : d \in 1..(MaxDay + 1), e \in {-1, 0}}

PureWindows ==
    {[AvailabilityDate |-> t, AvailableTimeSlots |-> [i \in 1..n |-> i]] :
        t \in PureDates, n \in 0..MaxSlots}

SeqsUpTo(S, n) == UNION {[1..k -> S] : k \in 0..n}

PureInit ==
    /\ demoOnly = FALSE
    /\ cancelIfExist = FALSE
    /\ webhookEnable = FALSE
    /\ daysAround \in {<<lo, hi>> \in (0..MaxDay) \X (0..MaxDay) : lo <= hi}
    /\ Start([Fields EXCEPT !.pc = "filter"])
    /\ invoked = "none"
    /\ probeInput \in [now : {0, ms(1)}, dates : SeqsUpTo(PureWindows, MaxWin)]
    /\ avaliableDates = <<>>

ApplyFilter ==
    /\ pc = "filter"
    /\ avaliableDates' = FilterDates(probeInput.dates, probeInput.now, daysAround)
    /\ pc' = "filtered"
    /\ UNCHANGED <<cfgVars, count, settled, queued, inflight, isPaused, isHolded,
                   isBooked, existingBookingConfirmationNumber,
                   webhookStatusMessageId, avaliableLocation, flows, hooks,
                   exited, exitCode, exitCause, requested, importantSent,
                   holdsOk, webhookCalled, message, bestSoFar, found, pauses,
                   cancelsSent,
                   invoked, probeInput>>

PureNext == ApplyFilter

PureSpec == PureInit /\ [][PureNext]_vars

\* ------------------------------------------------------------- properties
HoldsOutstanding == {f \in flows : f.pc = "hold"}

\* C1: at most one /api/HoldSlot request is outstanding at a time and at most
\* one hold ever succeeds (a second discovery of the round sees the latch set
\* and issues no hold request).
C1_OneHoldAtATime ==
    /\ Cardinality(HoldsOutstanding) <= 1
    /\ holdsOk <= 1

\* A booking request has returned 200 and the process has not yet terminated.
Booked200 == \E f \in flows : f.pc \in {"json", "notify"}

\* C2: between a booking request's 200 response and the termination of the
\* process no new probe is dispatched and no second important notification is
\* sent.
C2_NothingAfterBooking ==
    [][Booked200 =>
          /\ inflight' \subseteq inflight
          /\ (importantSent' # importantSent => importantSent = 0)]_vars

\* C3: the step that handles a hold response with SlotHeldSuccessfully not true
\* leaves isHolded unchanged, isBooked false, the queue running, issues no book
\* request for that invocation and does not terminate the process.
C3_FailedHold ==
    [][\A f \in flows :
          (f.pc = "hold" /\ Step(holdResponse(Cur, f, FALSE))) =>
              /\ isHolded' = isHolded
              /\ ~isBooked'
              /\ ~isPaused'
              /\ ~exited'
              /\ ~\E g \in flows' : g.id = f.id]_vars

\* C4: after the step that handles a booking response whose status is not 200
\* the queue is running, isHolded is still true, isBooked is still false, no
\* important notification was sent and the process has not terminated.
C4_FailedBook ==
    [][\A f \in flows :
          (f.pc = "book" /\ Step(bookResponse(Cur, f, 500))) =>
              /\ ~isPaused'
              /\ isHolded /\ isHolded'
              /\ ~isBooked /\ ~isBooked'
              /\ importantSent' = importantSent
              /\ ~exited']_vars

\* C5: in a fair run (outside dry-run mode) the probes of a round that were
\* added to the queue are eventually dispatched, unless the process terminates:
\* the queue does not stay paused for ever.
C5_PollingResumes ==
    (~demoOnly /\ queued # <<>>) ~> (queued = <<>>)

\* C6: isBooked implies isHolded, and neither flag is ever set back to false
\* (so each goes from false to true at most once).
C6_Latches ==
    /\ [](isBooked => isHolded)
    /\ [][(isHolded => isHolded') /\ (isBooked => isBooked')]_vars

C6_Witness == isBooked /\ isHolded /\ ~exited

\* C7 as stated: the first call of a run sends a new message, every later
\* non-important call first issues an edit request carrying the stored id, a
\* rejected edit is followed by one send-new, and no call issues a third
\* request.
C7_EveryLaterCallEdits ==
    \A h \in hooks :
        /\ h.nreq \in {1, 2}
        /\ (h.first /\ h.nreq = 1) => h.sendNew
        /\ (~h.first /\ ~h.important /\ h.nreq = 1) =>
               (~h.sendNew /\ h.message_id = h.stored)
        /\ h.nreq = 2 => h.sendNew

\* C7, amended: the first call of a run sends a new message; a later
\* non-important call issues an edit request carrying the stored id when an id
\* is stored (it is not negative) and a send-new request otherwise; a second
\* request of a call is a send-new that follows a rejected edit, with the
\* stored id invalidated; no call issues a third request.
C7_Notifier ==
    \A h \in hooks :
        /\ h.nreq \in {1, 2}
        /\ h.first => (h.nreq = 1 /\ h.sendNew)
        /\ (~h.important /\ h.nreq = 1 /\ h.stored >= 0) =>
               (~h.sendNew /\ h.message_id = h.stored)
        /\ (~h.important /\ h.nreq = 1 /\ h.stored < 0) => h.sendNew
        /\ h.nreq = 2 =>
               /\ h.sendNew /\ ~h.important
               /\ h.stored = InvalidMessageId
               /\ webhookStatusMessageId = InvalidMessageId

C7_Witness ==
    \E h \in hooks : h.nreq = 2 /\ h.sendNew /\ ~h.first

DestructivePaths ==
    {"/api/CancelBooking", "/api/HoldSlot", "/api/Eligibility", "/api/NewBooking"}

\* C8: with demoOnly set, an invocation of cancelBooking, holdSlot or bookSlot
\* ends the process with exit code 2 and no cancel, hold, eligibility or
\* booking request is ever issued.
C8_DryRun ==
    demoOnly =>
        /\ requested \cap DestructivePaths = {}
        /\ flows = {}
        /\ invoked # "none" => (exited /\ exitCode = 2 /\ exitCause = "demo")

C8_Witness ==
    demoOnly /\ invoked = "holdSlot" /\ exited /\ exitCode = 2 /\ isPaused

\* The windows the claim says are kept, by position in the server's list.
Qualifies(w, now, lo, hi) ==
    /\ lo * DayMs <= w.AvailabilityDate - now
    /\ w.AvailabilityDate - now < hi * DayMs
    /\ Len(w.AvailableTimeSlots) >= 1

KeptPositions ==
    {i \in 1..Len(probeInput.dates) :
        Qualifies(probeInput.dates[i], probeInput.now, daysAround[1], daysAround[2])}

NthKept(k) ==
    CHOOSE i \in KeptPositions : Cardinality({j \in KeptPositions : j <= i}) = k

\* C9: the windows the prober keeps are exactly those whose date d satisfies
\* lo <= d - now < hi (days, compared in milliseconds) and that have a slot, in
\* the server's order; so the candidate is never taken from another window.
C9_FilterExact ==
    pc = "filtered" =>
        /\ Len(avaliableDates) = Cardinality(KeptPositions)
        /\ \A k \in 1..Len(avaliableDates) :
               avaliableDates[k] = probeInput.dates[NthKept(k)]

C9_Witness ==
    /\ pc = "filtered"
    /\ Len(avaliableDates) = 1
    /\ \E i \in 1..Len(probeInput.dates) :
           /\ probeInput.dates[i].AvailabilityDate - probeInput.now = ms(daysAround[2])
           /\ Len(probeInput.dates[i].AvailableTimeSlots) > 0

FiveCauses == {"booked", "demo", "existing", "webhook", "cancelFail"}

\* C10: the exit code of a terminated process determines which of the five
\* terminal causes ended it (their exit codes are pairwise distinct).
C10_ExitCodeTellsCause ==
    exited => \A c \in FiveCauses : ExitCodeOf(c) = exitCode => c = exitCause

\* C11: rounds never overlap.  Once getLocationDatesAll has gone on from a
\* round's addAll (to the summary and the sleep) no probe of that round is
\* still queued or in flight, and the probes in flight all belong to one round.
C11_RoundsNeverOverlap ==
    /\ pc \in {"roundWebhook", "sleep"} =>
           \A task \in inflight \cup SeqRange(queued) : task[1] # count
    /\ \A t1, t2 \in inflight : t1[1] = t2[1]

\* The step handles a probe's response in which getLocationDates finds a
\* candidate (a discovery).
Discovery ==
    \E task \in inflight : \E response \in ProbeResponses(task[2]) :
        /\ Len(FilterDates(response, 0, daysAround)) # 0
        /\ Step(getLocationDates(Cur, task, response, 0))

CancelRefused ==
    \E f \in flows : f.pc = "cancel" /\ Step(cancelResponse(Cur, f, 500))

\* C13: with an existing booking staged, every invocation that has issued its
\* hold request got a 200 from its cancel request before; a cancel response
\* other than 200 terminates the process in that step with no request issued,
\* and a terminated process issues no request.
C13_CancelBeforeHold ==
    /\ [](existingBookingConfirmationNumber # "" =>
              \A f \in flows : f.nhold > 0 => f.cancelled)
    /\ [][/\ CancelRefused =>
                 exited' /\ flows' = {} /\ requested' = requested
          /\ exited => requested' = requested /\ flows' = {}]_vars

\* A hold request is outstanding after the staged booking was cancelled.
C13_Witness ==
    /\ existingBookingConfirmationNumber # ""
    /\ \E f \in flows : f.pc = "hold" /\ f.cancelled

\* The stage of run() a suspension point belongs to.
StartupRank(p) ==
    CASE p = "initWebhook" -> 0
      [] p = "checkExist" -> 1
      [] p = "reqLoc" -> 2
      [] p \in {"addAll", "roundWebhook", "sleep"} -> 3
      [] OTHER -> 4

\* C14: startup is sequential.  While the initial notification is awaited no
\* API request has been issued; while the existing-booking query is awaited the
\* notification has returned and nothing else was requested; the location list
\* is requested after that, is stored once and never replaced; no probe exists
\* before the list is stored; a process ended by the keep policy has requested
\* nothing but the existing-booking query.
C14_StartupSequential ==
    /\ [](/\ pc = "initWebhook" => webhookEnable /\ requested = {}
          /\ pc = "checkExist" =>
                 /\ requested = {"/api/Booking"}
                 /\ hooks = {}
                 /\ webhookEnable => webhookCalled
          /\ pc = "reqLoc" =>
                 /\ requested = {"/api/Booking", "/api/AvailableLocation/"}
                 /\ avaliableLocation = NullLocations
          /\ avaliableLocation = NullLocations =>
                 /\ inflight = {} /\ queued = <<>> /\ flows = {}
                 /\ "/api/AvailableLocationDates" \notin requested
          /\ exitCause = "existing" =>
                 /\ ~cancelIfExist
                 /\ requested = {"/api/Booking"}
                 /\ avaliableLocation = NullLocations)
    /\ [][/\ StartupRank(pc') >= StartupRank(pc)
          /\ avaliableLocation # NullLocations =>
                 avaliableLocation' = avaliableLocation]_vars

\* The polling loop is reached with the notifier on and a booking staged.
C14_Witness ==
    /\ webhookEnable /\ existingBookingConfirmationNumber # ""
    /\ pc = "addAll" /\ inflight # {}

\* C15: when the round's summary is sent, every location whose probe of that
\* round succeeded has its lines in it, also when a sibling probe failed.
C15_SiblingsCollected ==
    pc = "roundWebhook" => settled \subseteq SeqRange(message)

\* The first tracked location, in list order, whose NextAvailableDate in the
\* stored location list is the soonest.
Soonest(locations) ==
    LET i == CHOOSE i \in 1..Len(locations) :
                 /\ \A j \in 1..Len(locations) :
                        locations[i].NextAvailableDate <= locations[j].NextAvailableDate
                 /\ \A j \in 1..(i - 1) :
                        locations[j].NextAvailableDate > locations[i].NextAvailableDate
    IN  locations[i].Id

\* Every probe of the round resolved, exactly one of them with a candidate, and
\* the round's summary is composed.
OneCandidateRound ==
    /\ pc = "roundWebhook" /\ message # <<>>
    /\ Cardinality(found) = 1

\* C16 (as stated): in such a round best-so-far names the location that had the
\* candidate.
C16_BestIsCandidate == OneCandidateRound => bestSoFar.Name \in found

\* Of the windows the server offers for location l (ProbeResponses), the first
\* slot of the first one inside the day-window.
FirstSlot(l) == 10 * l + 1

\* C16 (amended): a probe's response with a candidate pauses the queue and,
\* outside dry-run mode and with the holding latch not set, starts exactly one
\* holdSlot invocation, for that probe and with the first slot of its first
\* qualifying window; a response without a candidate starts none and leaves the
\* queue as it is; and the summary of a round whose probes all resolved names as
\* best-so-far the location with the soonest NextAvailableDate of the stored list.
C16_OneCandidate ==
    /\ []((pc = "roundWebhook" /\ message # <<>>) =>
              bestSoFar.Name = Soonest(avaliableLocation))
    /\ [][\A task \in inflight : \A response \in ProbeResponses(task[2]) :
              Step(getLocationDates(Cur, task, response, 0)) =>
                  IF Len(FilterDates(response, 0, daysAround)) # 0
                  THEN /\ isPaused'
                       /\ IF demoOnly \/ isHolded THEN flows' = flows
                          ELSE \E f \in flows' \ flows :
                                   /\ flows' = flows \cup {f}
                                   /\ f.id = task
                                   /\ f.slot = FirstSlot(task[2])
                                   /\ f.pc \in {"cancel", "hold"}
                  ELSE flows' = flows /\ isPaused' = isPaused]_vars

\* Location A alone had a candidate, its holdSlot invocation is suspended with
\* A's slot, the queue is paused, and best-so-far names the other location.
C16_Witness ==
    /\ OneCandidateRound /\ isPaused
    /\ bestSoFar.Name \notin found
    /\ \E f \in flows : f.id[2] \in found /\ f.slot = FirstSlot(f.id[2])

\* C17: while the queue stays paused no probe is started and what was pending
\* stays pending; a step takes at most one probe out of flight (the one whose
\* response it handles), so a pause drops none; a pending task leaves the queue
\* only by being started; the step that resumes the queue starts every pending
\* task; and tasks are pending only while the queue is paused.  (A process that
\* has ended has no work left.)
C17_PauseKeepsWork ==
    /\ [](queued # <<>> => isPaused)
    /\ [][~exited' =>
              /\ (isPaused /\ isPaused') =>
                     /\ inflight' \subseteq inflight
                     /\ SeqRange(queued) \subseteq SeqRange(queued')
              /\ Cardinality(inflight \ inflight') <= 1
              /\ SeqRange(queued) \subseteq SeqRange(queued') \cup inflight'
              /\ (isPaused /\ ~isPaused') =>
                     /\ queued' = <<>>
                     /\ SeqRange(queued) \subseteq inflight']_vars

\* The round loop has added a round to the paused queue.
C17_Witness == isPaused /\ queued # <<>> /\ pc = "addAll"

\* The step handles a hold response that is not a success, or a book response
\* whose status is not 200.
FailedAttempt ==
    \E f \in flows :
        \/ f.pc = "hold" /\ Step(holdResponse(Cur, f, FALSE))
        \/ f.pc = "book" /\ Step(bookResponse(Cur, f, 500))

\* C18: the queue goes from paused to running only in a step that handles a
\* failed hold or a failed book.
C18_ResumeOnlyOnFailure ==
    [][(isPaused /\ ~isPaused') => FailedAttempt]_vars

\* The queue was paused and is running again, with probes in flight.
C18_Witness == ~isPaused /\ pauses > 0 /\ ~exited /\ inflight # {}

\* C19: an invocation of the workflow has issued at most one hold request and
\* at most one book request, and no step issues the hold request of an
\* invocation whose candidate was discovered before an attempt failed.
C19_NoResend ==
    /\ [](\A f \in flows : f.nhold <= 1 /\ f.nbook <= 1)
    /\ [][\A f \in flows :
              (f.pc = "cancel" /\ f.stale) =>
                  \A g \in flows' : g.id = f.id => g.pc # "hold"]_vars

\* C20: at most one booking request is outstanding at a time, and at most one
\* booking request has returned 200.
C20_OneBooking ==
    /\ Cardinality({f \in flows : f.pc = "book"}) <= 1
    /\ Cardinality({f \in flows : f.pc \in {"json", "notify"}}) <= 1

\* C21: in the history of an invocation a booking request comes right after an
\* eligibility request, which comes right after a successful hold response,
\* which answers a hold request; all four are about the slot and the location
\* holdSlot was called with.
C21_HoldEligibilityBook ==
    \A f \in flows : \A i \in 1..Len(f.log) :
        f.log[i].ev = "book" =>
            /\ i >= 4
            /\ f.log[i - 1].ev = "elig"
            /\ f.log[i - 2].ev = "holdOk"
            /\ f.log[i - 3].ev = "hold"
            /\ \A j \in (i - 3)..i :
                   f.log[j].slot = f.slot /\ f.log[j].site = f.id[2]

\* A booking request is outstanding.
C21_Witness == \E f \in flows : f.pc = "book" /\ f.nbook = 1

\* The positions of the windows of a response that pass the filter, and the
\* first slot of the first of them in the server's order.
QualifyingAt(response) ==
    {i \in 1..Len(response) :
        Qualifies(response[i], 0, daysAround[1], daysAround[2])}

FirstCandidate(response) ==
    LET i == CHOOSE i \in QualifyingAt(response) :
                 \A j \in QualifyingAt(response) : i <= j
    IN  response[i].AvailableTimeSlots[1]

\* C22: when windows of a probe's response pass the filter, the invocation the
\* probe starts (if it starts one: not in dry-run mode, latch not set) is given
\* the first slot of the first qualifying window in the server's order; when
\* none passes, the step starts no invocation, does not pause the queue and
\* counts no candidate.
C22_FirstInServerOrder ==
    [][\A task \in inflight : \A response \in ProbeResponses(task[2]) :
           Step(getLocationDates(Cur, task, response, 0)) =>
               IF QualifyingAt(response) # {}
               THEN \A f \in flows' \ flows :
                        f.id = task /\ f.slot = FirstCandidate(response)
               ELSE /\ flows' = flows
                    /\ isPaused' = isPaused
                    /\ pauses' = pauses
                    /\ found' = found
                    /\ requested' = requested]_vars

\* A probe's candidate has started an invocation, which awaits its hold
\* response with the slot the server listed first.
C22_Witness ==
    \E f \in flows :
        /\ f.pc = "hold" /\ f.log[1].slot = 10 * f.id[2] + 1
        /\ f.id[2] \in found

\* C23: the request of an important call is a send-new request without the
\* silent flag; a non-important send-new request carries the silent flag; the
\* step that handles the answer to an important call's request leaves the
\* stored id as it is; and the stored id becomes a returned message id only in
\* the step that handles the success of a non-important send-new request (the
\* only other change is its invalidation by a rejected edit).
C23_ImportantNeverEdits ==
    /\ [](\A h \in hooks :
              /\ h.important => h.sendNew /\ ~h.disable_notification
              /\ (~h.important /\ h.sendNew) => h.disable_notification)
    /\ [][/\ \A h \in hooks :
                 (/\ h.important
                  /\ \/ \E mid \in 1..MaxMsgId : Step(webhookOk(Cur, h, mid))
                     \/ Step(webhookNotOk(Cur, h))
                     \/ Step(webhookThrow(Cur, h)))
                 => webhookStatusMessageId' = webhookStatusMessageId
          /\ webhookStatusMessageId' # webhookStatusMessageId =>
                 \/ \E h \in hooks : \E mid \in 1..MaxMsgId :
                        /\ ~h.important /\ h.sendNew
                        /\ Step(webhookOk(Cur, h, mid))
                        /\ webhookStatusMessageId' = mid
                 \/ \E h \in hooks :
                        /\ ~h.sendNew
                        /\ Step(webhookNotOk(Cur, h))
                        /\ webhookStatusMessageId' = InvalidMessageId]_vars

\* An important call's request is outstanding while a status-message id is
\* stored.
C23_Witness ==
    \E h \in hooks : h.important /\ h.sendNew /\ h.stored >= 0

\* C24: while an invocation that has issued its hold request is still under
\* way, the polling queue is paused.
C24_PausedWhileReserving ==
    (\E f \in flows : f.nhold > 0) => isPaused

\* C25: at most one /api/CancelBooking request is issued in a run.
C25_CancelOnce == cancelsSent <= 1

\* C26: whenever the queue is paused and the process is alive, an invocation
\* of the reservation workflow is under way.
C26_PausedMeansReserving ==
    (isPaused /\ ~exited) => flows # {}

====
